---- MODULE Spec2Model ----
(***************************************************************************)
(* Model of the bowling target-score solver of podo-teams (CountPage), of   *)
(* its team maker (makeTeams) and of its random mode (planOneRound).       *)
(* A Frame is a sequence of pin counts; an entered frame is a string,      *)
(* modelled as a sequence of one-character strings.  The numeric weights   *)
(* of the realism ranking are kept doubled so that 0.5 stays an integer.   *)
(***************************************************************************)
EXTENDS Integers, Sequences, FiniteSets, TLC

VARIABLES
  framesStr,        \* CountPage state: the ten entered frame strings
  target,           \* CountPage state: the target score
  limit,            \* CountPage state: the maximum number of solutions
  preferRealism,    \* CountPage state: the ranking toggle
  forbidFirstZero,  \* CountPage state: the first-roll-zero toggle
  solutions,        \* CountPage state: the solutions of the last calculation
  sols,             \* handleCalculate: the recorded solutions, before ranking and cut
  previewScore,     \* CountPage state: the preview score (Null before a calculation)
  NORMAL_POOL,      \* handleCalculate: the ordinary pool of the last calculation
  TENTH_POOL,       \* handleCalculate: the tenth pool of the last calculation
  game,             \* scoreGame: the frames being scored
  frame,            \* scoreGame: the loop counter (1..10, 11 when finished)
  rollIndex,        \* scoreGame: the cursor into the rolls
  score,            \* scoreGame: the running total
  displayed,        \* framesToPretty: the frame to format (its argument fr)
  typed,            \* parseFrameSymbol: the text to parse (its argument sym)
  parsedFrame,      \* parseFrameSymbol: the result, once returned
  cand,             \* scoreRealism: the triple (f8, f9, f10) to rate
  realism,          \* scoreRealism: the result (doubled), once returned
  players,          \* makeTeams: its argument, the players (name, avg)
  maxPerTable,      \* makeTeams: its argument (MainPage state maxPerTable)
  teamCount,        \* makeTeams: the number of teams
  sizes,            \* makeTeams: the target sizes
  teams,            \* makeTeams: the teams (idx, players, sizeLimit)
  seeded,           \* makeTeams: the players by descending average
  seedIdx,          \* makeTeams: how many players of seeded the loop has taken
  patternPos,       \* makeTeams: the position p in the snake pattern
  placedVia,        \* makeTeams: how the last player found a team
  status,           \* makeTeams: "idle", "placing", "returned" or "threw"
  groups,           \* RandomPage state: the groups (name length, members)
  roundTeams,       \* RandomPage state teamCount: the number of teams
  roundIdx,         \* planOneRound: the index of the round
  groupEntries,     \* planOneRound: the shuffled groups still to distribute
  result,           \* planOneRound: the teams being filled
  mixed,            \* planOneRound: how many teams the final loop has shuffled
  planStatus        \* planOneRound: "idle", "merging" or "returned"

vars == <<framesStr, target, limit, preferRealism, forbidFirstZero, solutions, sols,
          previewScore, NORMAL_POOL, TENTH_POOL, game, frame, rollIndex, score,
          displayed, typed, parsedFrame, cand, realism,
          players, maxPerTable, teamCount, sizes, teams, seeded, seedIdx, patternPos,
          placedVia, status,
          groups, roundTeams, roundIdx, groupEntries, result, mixed, planStatus>>

calcVars == <<framesStr, target, limit, preferRealism, forbidFirstZero, solutions, sols,
              previewScore, NORMAL_POOL, TENTH_POOL>>
scoreVars == <<game, frame, rollIndex, score>>
parseVars == <<displayed, typed, parsedFrame>>
realismVars == <<cand, realism>>
teamVars == <<players, maxPerTable, teamCount, sizes, teams, seeded, seedIdx, patternPos,
              placedVia, status>>
roundVars == <<groups, roundTeams, roundIdx, groupEntries, result, mixed, planStatus>>

\* null / an empty array: no valid Frame is empty, so both are the empty sequence
Null == <<>>

\* Number(ch) of a character that is not a decimal digit
NaN == -1

(* -------------------- parser -------------------- *)
Digits == <<"0", "1", "2", "3", "4", "5", "6", "7", "8", "9">>

\* Number(ch) for one character
Number(ch) ==
  IF \E d \in 1..10 : Digits[d] = ch
  THEN (CHOOSE d \in 1..10 : Digits[d] = ch) - 1
  ELSE NaN

\* sym.trim().replace(/\s+/g, "").toUpperCase()
Normalize(sym) ==
  LET noSpace == SelectSeq(sym, LAMBDA ch : ch # " ")
  IN [i \in 1..Len(noSpace) |-> IF noSpace[i] = "x" THEN "X" ELSE noSpace[i]]

\* the length-2 branch of parseFrameSymbol, on a normalised string
ParseTwo(s) ==
  LET a == IF s[1] = "-" THEN 0 ELSE IF s[1] = "X" THEN 10 ELSE Number(s[1])
      bChar == s[2]
      b == IF bChar = "-" THEN 0 ELSE IF bChar = "X" THEN 10 ELSE Number(bChar)
  IN IF a = NaN \/ a < 0 \/ a > 10 THEN Null
     ELSE IF bChar = "/" THEN (IF a >= 10 THEN Null ELSE <<a, 10 - a>>)
     ELSE IF b = NaN \/ b < 0 \/ b > 10 THEN Null
     ELSE IF a + b > 10 THEN Null
     ELSE <<a, b>>

\* the length-3 branch of parseFrameSymbol, on a normalised string
ParseThree(s) ==
  LET firstTwo == ParseTwo(SubSeq(s, 1, 2))
  IN IF firstTwo = Null THEN Null
     ELSE LET a == firstTwo[1]
              b == firstTwo[2]
              cChar == s[3]
              c == IF cChar = "-" THEN 0
                   ELSE IF cChar = "X" THEN 10
                   ELSE IF cChar = "/" THEN (IF a = 10 THEN NaN ELSE 10 - b)
                   ELSE Number(cChar)
          IN IF c = NaN THEN Null
             ELSE IF a = 10 THEN (IF b # 10 /\ b + c > 10 THEN Null ELSE <<a, b, c>>)
             ELSE IF a + b = 10 THEN <<a, b, c>>
             ELSE Null

parseFrameSymbol(sym) ==
  LET s == Normalize(sym)
  IN IF Len(s) = 0 THEN Null
     ELSE IF s = <<"X">> THEN <<10>>
     ELSE IF Len(s) = 2 THEN ParseTwo(s)
     ELSE IF Len(s) = 3 THEN ParseThree(s)
     ELSE Null

\* String(n) for a roll n
String(n) == IF n \in 0..9 THEN <<Digits[n + 1]>> ELSE <<"1", "0">>

\* framesToPretty(fr), for the frames the generators and the parser produce
\* (one roll only as the strike [10], else two or three rolls)
framesToPretty(fr) ==
  IF Len(fr) = 1 /\ fr[1] = 10 THEN <<"X">>
  ELSE IF Len(fr) = 2
  THEN LET a == fr[1]
           b == fr[2]
       IN IF a + b = 10
          THEN (IF a = 0 THEN <<"-">> ELSE String(a)) \o <<"/">>
          ELSE (IF a = 0 THEN <<"-">> ELSE String(a))
                 \o (IF b = 0 THEN <<"-">> ELSE String(b))
  ELSE LET a == fr[1]
           b == fr[2]
           c == fr[3]
           f == IF a = 10 THEN <<"X">> ELSE IF a = 0 THEN <<"-">> ELSE String(a)
           s == IF a = 10 THEN (IF b = 10 THEN <<"X">> ELSE String(b))
                ELSE IF a + b = 10 THEN <<"/">>
                ELSE IF b = 0 THEN <<"-">>
                ELSE String(b)
           t == IF a = 10
                THEN (IF b = 10 THEN (IF c = 10 THEN <<"X">> ELSE String(c))
                      ELSE IF b + c = 10 THEN <<"/">>
                      ELSE IF c = 0 THEN <<"-">>
                      ELSE String(c))
                ELSE IF a + b = 10 THEN (IF c = 10 THEN <<"X">> ELSE String(c))
                ELSE <<>>
       IN f \o s \o t

\* parseFramesUpTo(input, upto): an unparsable entry keeps its place as []
parseFramesUpTo(input, upto) ==
  [i \in 1..upto |-> IF i <= Len(input) THEN parseFrameSymbol(input[i]) ELSE Null]

(* -------------------- scoring -------------------- *)
\* rolls.push(...frames[i]) for every frame
RECURSIVE Rolls(_)
Rolls(frames) ==
  IF frames = <<>> THEN <<>> ELSE Head(frames) \o Rolls(Tail(frames))

\* rolls[i] ?? 0, with the zero-based index of the source
RollAt(rolls, i) == IF i + 1 <= Len(rolls) THEN rolls[i + 1] ELSE 0

\* ScoreFrame with the tenth-frame bonus block also run after a strike
ScoreFrame_bonusTwice(rolls, fr, idx, sc) ==
  LET first == RollAt(rolls, idx)
  IN IF first = 10
     THEN IF fr = 10
          THEN [rollIndex |-> idx + 3,
                score |-> sc + 10 + 2 * (RollAt(rolls, idx + 1) + RollAt(rolls, idx + 2))]
          ELSE [rollIndex |-> idx + 1,
                score |-> sc + 10 + RollAt(rolls, idx + 1) + RollAt(rolls, idx + 2)]
     ELSE LET b == RollAt(rolls, idx + 1)
              sum == first + b
              sc1 == IF sum = 10 THEN sc + 10 + RollAt(rolls, idx + 2) ELSE sc + sum
          IN IF fr = 10 /\ sum = 10
             THEN [rollIndex |-> idx + 3, score |-> sc1 + RollAt(rolls, idx + 2)]
             ELSE [rollIndex |-> idx + 2, score |-> sc1]

\* ScoreFrame with the cursor moved by 2 after a strike as after any other frame
ScoreFrame_strikeTwo(rolls, fr, idx, sc) ==
  LET first == RollAt(rolls, idx)
  IN IF first = 10
     THEN [rollIndex |-> idx + 2,
           score |-> sc + 10 + RollAt(rolls, idx + 1) + RollAt(rolls, idx + 2)]
     ELSE LET a == first
              b == RollAt(rolls, idx + 1)
              sum == a + b
              sc1 == IF sum = 10 THEN sc + 10 + RollAt(rolls, idx + 2) ELSE sc + sum
              idx1 == idx + 2
          IN IF fr = 10 /\ a = 10
             THEN [rollIndex |-> idx1 + 2,
                   score |-> sc1 + RollAt(rolls, idx1) + RollAt(rolls, idx1 + 1)]
             ELSE IF fr = 10 /\ sum = 10
             THEN [rollIndex |-> idx1 + 1, score |-> sc1 + RollAt(rolls, idx1)]
             ELSE [rollIndex |-> idx1, score |-> sc1]

\* one iteration of the frame loop of scoreGame: the new cursor and total
ScoreFrame(rolls, fr, idx, sc) ==
  LET first == RollAt(rolls, idx)
  IN IF first = 10
     THEN [rollIndex |-> idx + 1,
           score |-> sc + 10 + RollAt(rolls, idx + 1) + RollAt(rolls, idx + 2)]
     ELSE LET a == first
              b == RollAt(rolls, idx + 1)
              sum == a + b
              sc1 == IF sum = 10 THEN sc + 10 + RollAt(rolls, idx + 2) ELSE sc + sum
              idx1 == idx + 2
          IN IF fr = 10 /\ a = 10
             THEN [rollIndex |-> idx1 + 2,
                   score |-> sc1 + RollAt(rolls, idx1) + RollAt(rolls, idx1 + 1)]
             ELSE IF fr = 10 /\ sum = 10
             THEN [rollIndex |-> idx1 + 1, score |-> sc1 + RollAt(rolls, idx1)]
             ELSE [rollIndex |-> idx1, score |-> sc1]

\* the frame loop of scoreGame from frame fr on
RECURSIVE ScoreLoop(_, _, _, _)
ScoreLoop(rolls, fr, idx, sc) ==
  IF fr > 10 THEN sc
  ELSE LET st == ScoreFrame(rolls, fr, idx, sc)
       IN ScoreLoop(rolls, fr + 1, st.rollIndex, st.score)

scoreGame(frames) == ScoreLoop(Rolls(frames), 1, 0, 0)

(* -------------------- candidate generation -------------------- *)
\* OpensOf with the bound b <= 10 - a
OpensOf_inclusive(a) == [i \in 1..(11 - a) |-> <<a, i - 1>>]

\* for (b = 0; b <= 9 - a; b++) res.push([a, b])
OpensOf(a) == [i \in 1..(10 - a) |-> <<a, i - 1>>]

\* the open frames for a = lo..9, in generation order
RECURSIVE OpensFrom(_)
OpensFrom(a) == IF a > 9 THEN <<>> ELSE OpensOf(a) \o OpensFrom(a + 1)

\* SparesFrom with the bound a < 9
SparesFrom_short(lo) == [i \in 1..(9 - lo) |-> <<lo + i - 1, 10 - (lo + i - 1)>>]

\* for (a = lo; a <= 9; a++) res.push([a, 10 - a])
SparesFrom(lo) == [i \in 1..(10 - lo) |-> <<lo + i - 1, 10 - (lo + i - 1)>>]

\* for (c = 0; c <= 10; c++) res.push([a, 10 - a, c]), for a = lo..9
RECURSIVE SpareBonusFrom(_)
SpareBonusFrom(a) ==
  IF a > 9 THEN <<>>
  ELSE [i \in 1..11 |-> <<a, 10 - a, i - 1>>] \o SpareBonusFrom(a + 1)

\* StrikeBonusFrom without the pin-sum bound on the two bonus rolls
RECURSIVE StrikeBonusFrom_unbounded(_)
StrikeBonusFrom_unbounded(b) ==
  IF b > 10 THEN <<>>
  ELSE [i \in 1..11 |-> <<10, b, i - 1>>] \o StrikeBonusFrom_unbounded(b + 1)

\* StrikeBonusFrom with the loop bound b < 10: no second strike
RECURSIVE StrikeBonusFrom_single(_)
StrikeBonusFrom_single(b) ==
  IF b > 9 THEN <<>>
  ELSE [i \in 1..(11 - b) |-> <<10, b, i - 1>>] \o StrikeBonusFrom_single(b + 1)

\* the strike-led tenth frames [10, b, c] for b = b0..10
RECURSIVE StrikeBonusFrom(_)
StrikeBonusFrom(b) ==
  IF b > 10 THEN <<>>
  ELSE (IF b = 10 THEN [i \in 1..11 |-> <<10, b, i - 1>>]
        ELSE [i \in 1..(11 - b) |-> <<10, b, i - 1>>]) \o StrikeBonusFrom(b + 1)

generateNormalFrameCandidates_NoFilter == <<<<10>>>> \o SparesFrom(0) \o OpensFrom(0)

generateTenthFrameCandidates_NoFilter ==
  OpensFrom(0) \o SpareBonusFrom(0) \o StrikeBonusFrom(0)

generateNormalFrameCandidates_FilterFirstZero ==
  <<<<10>>>> \o SparesFrom(1) \o OpensFrom(1)

\* the filtered tenth pool with the zero ban also put on the first bonus roll
generateTenthFrameCandidates_FilterFirstZero_bonus ==
  OpensFrom(1) \o SpareBonusFrom(1) \o StrikeBonusFrom(1)

generateTenthFrameCandidates_FilterFirstZero ==
  OpensFrom(1) \o SpareBonusFrom(1) \o StrikeBonusFrom(0)

NORMAL_CAND_FILTER == generateNormalFrameCandidates_FilterFirstZero
TENTH_CAND_FILTER == generateTenthFrameCandidates_FilterFirstZero

(* -------------------- realism ranking (weights doubled) -------------------- *)
WEIGHTS ==
  [spareBase |-> 10, spareFirstBallMul |-> 4, strikePenalty |-> -6,
   consecutiveStrikePenalty |-> -8, openFirstBallMul |-> 2, openSecondBallMul |-> 1,
   gutterFirstPenalty |-> -16, tenthNiceBonus |-> 4, tripleXPenalty |-> -4]

isStrikeFrame(f) == Len(f) = 1 /\ f[1] = 10
isSpareFrame(f) == Len(f) = 2 /\ f[1] + f[2] = 10 /\ f[1] # 10
isOpenFrame(f) == Len(f) = 2 /\ f[1] + f[2] < 10
isTenthLikeStrike(f) == Len(f) = 3 /\ f[1] = 10
isTenthLikeSpare(f) == Len(f) = 3 /\ f[1] + f[2] = 10 /\ f[1] # 10

\* the contribution of mids[i] in the loop over [f8, f9]
MidRealism(mids, i) ==
  LET f == mids[i]
  IN IF isStrikeFrame(f)
     THEN WEIGHTS.strikePenalty
          + (IF i > 1 /\ isStrikeFrame(mids[i - 1])
             THEN WEIGHTS.consecutiveStrikePenalty ELSE 0)
     ELSE IF isSpareFrame(f)
     THEN WEIGHTS.spareBase + f[1] * WEIGHTS.spareFirstBallMul
     ELSE IF isOpenFrame(f)
     THEN (IF f[1] = 0 THEN WEIGHTS.gutterFirstPenalty ELSE 0)
          + f[1] * WEIGHTS.openFirstBallMul + f[2] * WEIGHTS.openSecondBallMul
     ELSE 0

\* TenthRealism with the clean-finish bonus given without the test b !== 10
TenthRealism_anyTen(t) ==
  IF isTenthLikeStrike(t)
  THEN (IF t[2] = 10 /\ t[3] = 10 THEN WEIGHTS.tripleXPenalty ELSE 0)
       + (IF t[2] + t[3] = 10 THEN WEIGHTS.tenthNiceBonus ELSE 0)
  ELSE IF isTenthLikeSpare(t)
  THEN WEIGHTS.spareBase + t[1] * WEIGHTS.spareFirstBallMul
  ELSE IF Len(t) = 2
  THEN (IF t[1] = 0 THEN WEIGHTS.gutterFirstPenalty ELSE 0)
       + t[1] * WEIGHTS.openFirstBallMul + t[2] * WEIGHTS.openSecondBallMul
  ELSE 0

\* the contribution of the tenth frame
TenthRealism(t) ==
  IF isTenthLikeStrike(t)
  THEN (IF t[2] = 10 /\ t[3] = 10 THEN WEIGHTS.tripleXPenalty ELSE 0)
       + (IF t[2] # 10 /\ t[2] + t[3] = 10 THEN WEIGHTS.tenthNiceBonus ELSE 0)
  ELSE IF isTenthLikeSpare(t)
  THEN WEIGHTS.spareBase + t[1] * WEIGHTS.spareFirstBallMul
  ELSE IF Len(t) = 2
  THEN (IF t[1] = 0 THEN WEIGHTS.gutterFirstPenalty ELSE 0)
       + t[1] * WEIGHTS.openFirstBallMul + t[2] * WEIGHTS.openSecondBallMul
  ELSE 0

\* scoreRealism without the closing check of frames 8 and 9
scoreRealism_once(frames) ==
  LET f8 == frames[1]
      f9 == frames[2]
      f10 == frames[3]
      mids == <<f8, f9>>
  IN MidRealism(mids, 1) + MidRealism(mids, 2) + TenthRealism(f10)

\* twice the value of scoreRealism([f8, f9, f10])
scoreRealism(frames) ==
  LET f8 == frames[1]
      f9 == frames[2]
      f10 == frames[3]
      mids == <<f8, f9>>
  IN MidRealism(mids, 1) + MidRealism(mids, 2) + TenthRealism(f10)
     + (IF isStrikeFrame(f8) /\ isStrikeFrame(f9)
        THEN WEIGHTS.consecutiveStrikePenalty ELSE 0)

(* -------------------- the search of handleCalculate -------------------- *)
\* fixed = parsedFirst10.map((fr) => (fr && fr.length ? fr : null))
FixedOf(parsed) == [i \in 1..Len(parsed) |-> IF Len(parsed[i]) > 0 THEN parsed[i] ELSE Null]

\* forbidFirstZero ? NORMAL_CAND_FILTER : generateNormalFrameCandidates_NoFilter()
NormalPoolOf(fz) ==
  IF fz THEN NORMAL_CAND_FILTER ELSE generateNormalFrameCandidates_NoFilter

\* TenthPoolOf with the branches of the conditional exchanged
TenthPoolOf_exchanged(fz) ==
  IF fz THEN generateTenthFrameCandidates_NoFilter ELSE TENTH_CAND_FILTER

\* forbidFirstZero ? TENTH_CAND_FILTER : generateTenthFrameCandidates_NoFilter()
TenthPoolOf(fz) ==
  IF fz THEN TENTH_CAND_FILTER ELSE generateTenthFrameCandidates_NoFilter

\* fNFixed ? [fNFixed] : POOL
ListOf(fFixed, pool) == IF fFixed # Null THEN <<fFixed>> ELSE pool

\* Matches with >= for ===
Matches_atLeast(sc, tgt) == sc >= tgt

\* Matches with <= for ===
Matches_atMost(sc, tgt) == sc <= tgt

\* sc === target
Matches(sc, tgt) == sc = tgt

\* sols.length >= limit * 3
Overflow(acc, lim) == Len(acc) >= lim * 3

\* InnerLoop with the loop over f10List started at its second element
InnerLoop_skipFirst(prefix, f8, f9, f10List, tgt, lim, acc) ==
  LET hits == SelectSeq(Tail(f10List),
                LAMBDA f10 : Matches(scoreGame(prefix \o <<f8, f9, f10>>), tgt))
      pushed(q) == acc \o [k \in 1..q |-> <<f8, f9, hits[k]>>]
      breaks == {q \in 1..Len(hits) : Overflow(pushed(q), lim)}
  IN IF breaks = {}
     THEN [sols |-> pushed(Len(hits)), stop |-> FALSE]
     ELSE [sols |-> pushed(CHOOSE q \in breaks : \A r \in breaks : q <= r),
           stop |-> TRUE]

\* the innermost loop, for (const f10 of f10List), entered with sols: the matching
\* f10 are pushed in list order, up to the push after which Overflow holds
InnerLoop(prefix, f8, f9, f10List, tgt, lim, acc) ==
  LET hits == SelectSeq(f10List,
                LAMBDA f10 : Matches(scoreGame(prefix \o <<f8, f9, f10>>), tgt))
      pushed(q) == acc \o [k \in 1..q |-> <<f8, f9, hits[k]>>]
      breaks == {q \in 1..Len(hits) : Overflow(pushed(q), lim)}
  IN IF breaks = {}
     THEN [sols |-> pushed(Len(hits)), stop |-> FALSE]
     ELSE [sols |-> pushed(CHOOSE q \in breaks : \A r \in breaks : q <= r),
           stop |-> TRUE]

\* the labelled loop nest over f8List, f9List, f10List with its "break outer".
\* A loop over the indices lo..hi runs lo..m and then, unless the break was taken,
\* m+1..hi: the iterations happen in list order, each on the solutions left by
\* the one before, and nothing runs after the break.
Enumerate(prefix, f8List, f9List, f10List, tgt, lim) ==
  LET RECURSIVE Mid(_, _, _, _)
      Mid(f8, lo, hi, acc) ==
        IF lo > hi THEN [sols |-> acc, stop |-> FALSE]
        ELSE IF lo = hi THEN InnerLoop(prefix, f8, f9List[lo], f10List, tgt, lim, acc)
        ELSE LET m == (lo + hi) \div 2
                 left == Mid(f8, lo, m, acc)
             IN IF left.stop THEN left ELSE Mid(f8, m + 1, hi, left.sols)
      RECURSIVE Outer(_, _, _)
      Outer(lo, hi, acc) ==
        IF lo > hi THEN [sols |-> acc, stop |-> FALSE]
        ELSE IF lo = hi THEN Mid(f8List[lo], 1, Len(f9List), acc)
        ELSE LET m == (lo + hi) \div 2
                 left == Outer(lo, m, acc)
             IN IF left.stop THEN left ELSE Outer(m + 1, hi, left.sols)
  IN Outer(1, Len(f8List), <<>>).sols

\* if (!sols.length && f8Fixed && f9Fixed && f10Fixed) { ... }
\* Fallback with the emptiness test of sols dropped
Fallback_unguarded(acc, prefix, f8Fixed, f9Fixed, f10Fixed, tgt) ==
  IF f8Fixed # Null /\ f9Fixed # Null /\ f10Fixed # Null
  THEN (IF Matches(scoreGame(prefix \o <<f8Fixed, f9Fixed, f10Fixed>>), tgt)
        THEN Append(acc, <<f8Fixed, f9Fixed, f10Fixed>>) ELSE acc)
  ELSE acc

Fallback(acc, prefix, f8Fixed, f9Fixed, f10Fixed, tgt) ==
  IF Len(acc) = 0 /\ f8Fixed # Null /\ f9Fixed # Null /\ f10Fixed # Null
  THEN (IF Matches(scoreGame(prefix \o <<f8Fixed, f9Fixed, f10Fixed>>), tgt)
        THEN Append(acc, <<f8Fixed, f9Fixed, f10Fixed>>) ELSE acc)
  ELSE acc

\* InsertRanked with the comparator turned round (A - B for B - A)
RECURSIVE InsertRanked_ascending(_, _)
InsertRanked_ascending(sorted, x) ==
  IF sorted = <<>> THEN <<x>>
  ELSE IF scoreRealism(x) - scoreRealism(Head(sorted)) < 0
  THEN <<x>> \o sorted
  ELSE <<Head(sorted)>> \o InsertRanked_ascending(Tail(sorted), x)

\* insert x behind every element that does not rank below it
RECURSIVE InsertRanked(_, _)
InsertRanked(sorted, x) ==
  IF sorted = <<>> THEN <<x>>
  ELSE IF scoreRealism(x) - scoreRealism(Head(sorted)) > 0
  THEN <<x>> \o sorted
  ELSE <<Head(sorted)>> \o InsertRanked(Tail(sorted), x)

\* sols.sort((A, B) => scoreRealism(B) - scoreRealism(A)): a stable sort
RECURSIVE SortByRealism(_)
SortByRealism(acc) ==
  IF acc = <<>> THEN <<>>
  ELSE InsertRanked(SortByRealism(SubSeq(acc, 1, Len(acc) - 1)), acc[Len(acc)])

\* Truncate keeping the last lim solutions
Truncate_tail(acc, lim) ==
  IF Len(acc) > lim THEN SubSeq(acc, Len(acc) - lim + 1, Len(acc)) ELSE acc

\* Truncate without the cut
Truncate_none(acc, lim) == acc

\* if (sols.length > limit) sols.length = limit
Truncate(acc, lim) == IF Len(acc) > lim THEN SubSeq(acc, 1, lim) ELSE acc

\* const prefix = fixed.slice(0, 7).map((fr) => fr ?? [])
PrefixOf(fs) == SubSeq(FixedOf(parseFramesUpTo(fs, 10)), 1, 7)

\* Recorded with f9List taken from f8Fixed
Recorded_swapped(fs, tgt, lim, fz) ==
  LET fixed == FixedOf(parseFramesUpTo(fs, 10))
      f8Fixed == fixed[8]
      f9Fixed == fixed[9]
      f10Fixed == fixed[10]
      f8List == ListOf(f8Fixed, NormalPoolOf(fz))
      f9List == ListOf(f8Fixed, NormalPoolOf(fz))
      f10List == ListOf(f10Fixed, TenthPoolOf(fz))
      prefix == PrefixOf(fs)
      found == Enumerate(prefix, f8List, f9List, f10List, tgt, lim)
  IN Fallback(found, prefix, f8Fixed, f9Fixed, f10Fixed, tgt)

\* sols after the loop nest and the all-fixed check, as a function of the page state
Recorded(fs, tgt, lim, fz) ==
  LET fixed == FixedOf(parseFramesUpTo(fs, 10))
      f8Fixed == fixed[8]
      f9Fixed == fixed[9]
      f10Fixed == fixed[10]
      f8List == ListOf(f8Fixed, NormalPoolOf(fz))
      f9List == ListOf(f9Fixed, NormalPoolOf(fz))
      f10List == ListOf(f10Fixed, TenthPoolOf(fz))
      prefix == PrefixOf(fs)
      found == Enumerate(prefix, f8List, f9List, f10List, tgt, lim)
  IN Fallback(found, prefix, f8Fixed, f9Fixed, f10Fixed, tgt)

\* Ranked with the sort done whatever the toggle says
Ranked_always(recorded, rank) == SortByRealism(recorded)

\* if (preferRealism) sols.sort(...)
Ranked(recorded, rank) == IF rank THEN SortByRealism(recorded) ELSE recorded

\* the solutions handleCalculate stores, as a function of the page state
Search(fs, tgt, lim, rank, fz) == Truncate(Ranked(Recorded(fs, tgt, lim, fz), rank), lim)

\* the preview: scoreGame(fixed.map((fr) => fr ?? [0, 0]))
Preview(fs) ==
  LET fixed == FixedOf(parseFramesUpTo(fs, 10))
  IN scoreGame([i \in 1..10 |-> IF fixed[i] # Null THEN fixed[i] ELSE <<0, 0>>])

(* -------------------- inputs -------------------- *)
\* largest value of the solution limit that is explored
MaxLimit == 2

\* previewScore before the first calculation (useState<number | null>(null))
NoScore == -1

Empty == <<>>
Strike == <<"X">>
Gutters == <<"-", "-">>

\* entries for frames 1..7: all strikes, all gutters, and a mixed record with an
\* empty entry, a strike typed with a blank, and a leading miss; each comes
\* with a target that many completions reach (open), for the searches over two
\* or three free frames, and with targets that two to five completions of a
\* single free frame reach (few)
PrefixCases ==
  { [entries |-> [i \in 1..7 |-> Strike], open |-> 250, few |-> {252, 254}],
    [entries |-> [i \in 1..7 |-> Gutters], open |-> 20, few |-> {53, 55}],
    [entries |-> <<Strike, <<"9", "/">>, <<"8", "1">>, Empty, <<"X", " ">>,
                   <<"7", "/">>, <<"-", "9">>>>, open |-> 150, few |-> {141, 145}] }

\* entries for frames 8, 9 and 10: left empty (free) or entered (fixed)
Entries8 == {Empty, <<"9", "/">>}
Entries9 == {Empty, Strike}
Entries10 == {Empty, <<"9", "/", "X">>}

\* targets the page can hold (setTarget clamps to 0..300)
Targets == {0, 100, 210, 300}

\* targets below and above the range of scores, for the search taken as a
\* function of its arguments
OutsideTargets == {-1, 301}

FreeCount(fs) == Cardinality({i \in 8..10 : fs[i] = Empty})

\* the targets tried on the entries fs of prefix case c: all of them and the
\* sparse ones while at most one frame is free, the dense one once two or three
\* frames are free
TargetsFor(c, fs) == IF FreeCount(fs) <= 1 THEN Targets \cup c.few ELSE {c.open}

\* ten-frame games for the scorer: frames 1..7 alike, frames 8 and 9 from a
\* sample of the ordinary pool, frame 10 any frame of the tenth pool
SampleFrames == {<<10>>, <<9, 1>>, <<0, 10>>, <<0, 0>>}
Games ==
  { [i \in 1..7 |-> p] \o <<f8, f9, generateTenthFrameCandidates_NoFilter[k]>> :
      p \in {<<10>>, <<9, 1>>, <<0, 0>>}, f8 \in SampleFrames, f9 \in SampleFrames,
      k \in 1..Len(generateTenthFrameCandidates_NoFilter) }

\* the parser and the ranker at rest: nothing to parse, nothing to rate
NotParsed == <<-1>>
NotRated == -1000
IdleParse == displayed = <<>> /\ typed = <<>> /\ parsedFrame = NotParsed
IdleRealism == cand = <<>> /\ realism = NotRated

\* the team maker and the random mode at rest
IdleTeams ==
  /\ players = <<>> /\ maxPerTable = 6 /\ teamCount = 0 /\ sizes = <<>> /\ teams = <<>>
  /\ seeded = <<>> /\ seedIdx = 0 /\ patternPos = 0 /\ placedVia = "none"
  /\ status = "idle"
IdleRound ==
  /\ groups = <<>> /\ roundTeams = 3 /\ roundIdx = 0 /\ groupEntries = <<>>
  /\ result = <<>> /\ mixed = 0 /\ planStatus = "idle"

(* -------------------- the page: one calculation -------------------- *)
Init ==
  /\ \E c \in PrefixCases, e8 \in Entries8, e9 \in Entries9, e10 \in Entries10 :
       /\ framesStr = c.entries \o <<e8, e9, e10>>
       /\ target \in TargetsFor(c, framesStr)
  /\ limit \in 1..MaxLimit
  /\ preferRealism \in BOOLEAN
  /\ forbidFirstZero \in BOOLEAN
  /\ solutions = <<>>
  /\ sols = <<>>
  /\ previewScore = NoScore
  /\ NORMAL_POOL = <<>>
  /\ TENTH_POOL = <<>>
  /\ game = <<>>
  /\ frame = 1
  /\ rollIndex = 0
  /\ score = 0
  /\ IdleParse
  /\ IdleRealism
  /\ IdleTeams
  /\ IdleRound

\* the calculation of the entered record: it runs once on each input
handleCalculate ==
  /\ previewScore = NoScore
  /\ previewScore' = Preview(framesStr)
  /\ NORMAL_POOL' = NormalPoolOf(forbidFirstZero)
  /\ TENTH_POOL' = TenthPoolOf(forbidFirstZero)
  /\ sols' = Recorded(framesStr, target, limit, forbidFirstZero)
  /\ solutions' = Truncate(Ranked(sols', preferRealism), limit)
  /\ UNCHANGED <<framesStr, target, limit, preferRealism, forbidFirstZero>>
  /\ UNCHANGED <<scoreVars, parseVars, realismVars, teamVars, roundVars>>

Next == handleCalculate

Spec == Init /\ [][Next]_vars

(* -------------------- the search on any target -------------------- *)
\* the search as a function of its arguments: the target is any integer, also
\* one that no game scores; frame 10 is free only when frames 8 and 9 are fixed
InitSearch ==
  /\ \E c \in PrefixCases, e8 \in Entries8, e9 \in Entries9, e10 \in Entries10 :
       /\ framesStr = c.entries \o <<e8, e9, e10>>
       /\ FreeCount(framesStr) <= 1 \/ (FreeCount(framesStr) = 2 /\ e10 # Empty)
  /\ target \in OutsideTargets
  /\ limit \in 1..MaxLimit
  /\ preferRealism \in BOOLEAN
  /\ forbidFirstZero \in BOOLEAN
  /\ solutions = <<>>
  /\ sols = <<>>
  /\ previewScore = NoScore
  /\ NORMAL_POOL = <<>>
  /\ TENTH_POOL = <<>>
  /\ game = <<>>
  /\ frame = 1
  /\ rollIndex = 0
  /\ score = 0
  /\ IdleParse
  /\ IdleRealism
  /\ IdleTeams
  /\ IdleRound

NextSearch == handleCalculate

SpecSearch == InitSearch /\ [][NextSearch]_vars

(* -------------------- the scorer, frame by frame -------------------- *)
InitScore ==
  /\ framesStr = [i \in 1..10 |-> Empty]
  /\ target = 210
  /\ limit = 50
  /\ preferRealism = TRUE
  /\ forbidFirstZero = TRUE
  /\ solutions = <<>>
  /\ sols = <<>>
  /\ previewScore = NoScore
  /\ NORMAL_POOL = <<>>
  /\ TENTH_POOL = <<>>
  /\ game \in Games
  /\ frame = 1
  /\ rollIndex = 0
  /\ score = 0
  /\ IdleParse
  /\ IdleRealism
  /\ IdleTeams
  /\ IdleRound

\* one iteration of for (let frame = 1; frame <= 10; frame++)
scoreGameStep ==
  /\ frame <= 10
  /\ LET st == ScoreFrame(Rolls(game), frame, rollIndex, score)
     IN /\ rollIndex' = st.rollIndex
        /\ score' = st.score
  /\ frame' = frame + 1
  /\ UNCHANGED game
  /\ UNCHANGED <<calcVars, parseVars, realismVars, teamVars, roundVars>>

NextScore == scoreGameStep

SpecScore == InitScore /\ [][NextScore]_vars

(* -------------------- two records: strikes only, gutters only -------------------- *)
\* frames 1..7 all strikes and frame 10 absent.  With frames 8 and 9 entered
\* as strikes the targets are 270..300; with frame 8 entered and frame 9
\* absent the target is 300; with all three absent the target is 300, the
\* cap is 1 and the ranking is disabled exactly when first-roll zeros are
\* forbidden.
InitStrikes ==
  /\ forbidFirstZero \in BOOLEAN
  /\ \/ /\ framesStr = [i \in 1..7 |-> Strike] \o <<Strike, Strike, Empty>>
        /\ target \in 270..300
        /\ limit \in 1..MaxLimit
        /\ preferRealism \in BOOLEAN
     \/ /\ framesStr = [i \in 1..7 |-> Strike] \o <<Strike, Empty, Empty>>
        /\ target = 300
        /\ limit \in 1..MaxLimit
        /\ preferRealism \in BOOLEAN
     \/ /\ framesStr = [i \in 1..7 |-> Strike] \o <<Empty, Empty, Empty>>
        /\ target = 300
        /\ limit = 1
        /\ preferRealism = ~forbidFirstZero
  /\ solutions = <<>>
  /\ sols = <<>>
  /\ previewScore = NoScore
  /\ NORMAL_POOL = <<>>
  /\ TENTH_POOL = <<>>
  /\ game = <<>>
  /\ frame = 1
  /\ rollIndex = 0
  /\ score = 0
  /\ IdleParse
  /\ IdleRealism
  /\ IdleTeams
  /\ IdleRound

NextStrikes == handleCalculate

SpecStrikes == InitStrikes /\ [][NextStrikes]_vars

\* frames 1..7 all gutters; frames 8 and 9 both absent or both entered as
\* gutters, frame 10 absent.  With all three absent the target is 0 and the
\* ranking and the cap are the page's defaults; with frames 8 and 9 entered
\* the targets are 0..30.
InitGutters ==
  /\ \/ /\ framesStr = [i \in 1..7 |-> Gutters] \o <<Gutters, Gutters, Empty>>
        /\ target \in 0..30
        /\ limit \in 1..MaxLimit
        /\ preferRealism \in BOOLEAN
     \/ /\ framesStr = [i \in 1..7 |-> Gutters] \o <<Empty, Empty, Empty>>
        /\ target = 0
        /\ limit = 50
        /\ preferRealism = TRUE
  /\ forbidFirstZero \in BOOLEAN
  /\ solutions = <<>>
  /\ sols = <<>>
  /\ previewScore = NoScore
  /\ NORMAL_POOL = <<>>
  /\ TENTH_POOL = <<>>
  /\ game = <<>>
  /\ frame = 1
  /\ rollIndex = 0
  /\ score = 0
  /\ IdleParse
  /\ IdleRealism
  /\ IdleTeams
  /\ IdleRound

NextGutters == handleCalculate

SpecGutters == InitGutters /\ [][NextGutters]_vars

(* -------------------- the parser on any text -------------------- *)
\* longest text given to the parser
MaxSymLen == 3

\* the characters of the texts: the notation, digits, a blank, a lower-case x
\* and a letter outside the notation
SymChars == {"X", "x", "/", "-", "0", "1", "5", "8", "9", " ", "A"}

RECURSIVE TextsOfLen(_)
TextsOfLen(n) ==
  IF n = 0 THEN {<<>>}
  ELSE {Append(t, ch) : t \in TextsOfLen(n - 1), ch \in SymChars}

Texts == UNION {TextsOfLen(n) : n \in 0..MaxSymLen}

InitParse ==
  /\ framesStr = [i \in 1..10 |-> Empty]
  /\ target = 210
  /\ limit = 50
  /\ preferRealism = TRUE
  /\ forbidFirstZero = TRUE
  /\ solutions = <<>>
  /\ sols = <<>>
  /\ previewScore = NoScore
  /\ NORMAL_POOL = <<>>
  /\ TENTH_POOL = <<>>
  /\ game = <<>>
  /\ frame = 1
  /\ rollIndex = 0
  /\ score = 0
  /\ displayed = <<>>
  /\ typed \in Texts
  /\ parsedFrame = NotParsed
  /\ IdleRealism
  /\ IdleTeams
  /\ IdleRound

\* one call of parseFrameSymbol
parseFrameSymbolCall ==
  /\ parsedFrame = NotParsed
  /\ parsedFrame' = parseFrameSymbol(typed)
  /\ UNCHANGED <<displayed, typed, calcVars, scoreVars, realismVars, teamVars, roundVars>>

NextParse == parseFrameSymbolCall

SpecParse == InitParse /\ [][NextParse]_vars

(* -------------------- the ranker on any triple -------------------- *)
\* tenth frames of every kind, to go with every pair of ordinary frames
TenthSample ==
  {<<10, 10, 10>>, <<10, 10, 0>>, <<10, 0, 0>>, <<10, 3, 7>>, <<10, 0, 10>>,
   <<9, 1, 10>>, <<0, 10, 5>>, <<0, 0>>, <<7, 2>>}

\* the triples to rate: every pair of ordinary candidates with a sampled tenth
\* frame, and sampled ordinary frames with every tenth candidate
Triples ==
  {<<generateNormalFrameCandidates_NoFilter[i],
     generateNormalFrameCandidates_NoFilter[j], t>> :
      i \in 1..Len(generateNormalFrameCandidates_NoFilter),
      j \in 1..Len(generateNormalFrameCandidates_NoFilter), t \in TenthSample}
  \cup {<<f8, f9, generateTenthFrameCandidates_NoFilter[k]>> :
          f8 \in SampleFrames, f9 \in SampleFrames,
          k \in 1..Len(generateTenthFrameCandidates_NoFilter)}

InitRealism ==
  /\ framesStr = [i \in 1..10 |-> Empty]
  /\ target = 210
  /\ limit = 50
  /\ preferRealism = TRUE
  /\ forbidFirstZero = TRUE
  /\ solutions = <<>>
  /\ sols = <<>>
  /\ previewScore = NoScore
  /\ NORMAL_POOL = <<>>
  /\ TENTH_POOL = <<>>
  /\ game = <<>>
  /\ frame = 1
  /\ rollIndex = 0
  /\ score = 0
  /\ IdleParse
  /\ cand \in Triples
  /\ realism = NotRated
  /\ IdleTeams
  /\ IdleRound

\* one call of scoreRealism
scoreRealismCall ==
  /\ realism = NotRated
  /\ realism' = scoreRealism(cand)
  /\ UNCHANGED <<cand, calcVars, scoreVars, parseVars, teamVars, roundVars>>

NextRealism == scoreRealismCall

SpecRealism == InitRealism /\ [][NextRealism]_vars

(* ==================== properties ==================== *)
Range(seq) == {seq[i] : i \in 1..Len(seq)}

\* handleCalculate has run
Calculated == previewScore # NoScore

\* the scorer has finished its ten iterations
Scored == frame = 11

\* the fixed frame of position i (Null when the entry is empty or invalid)
FixedAt(i) == FixedOf(parseFramesUpTo(framesStr, 10))[i]

(* ---- official ten-pin scoring ---- *)
\* the index in the rolls of the first roll of frame i
RECURSIVE FirstRollOf(_, _)
FirstRollOf(g, i) == IF i = 1 THEN 1 ELSE FirstRollOf(g, i - 1) + Len(g[i - 1])

RECURSIVE SumSeq(_)
SumSeq(q) == IF q = <<>> THEN 0 ELSE Head(q) + SumSeq(Tail(q))

\* the points of frame i of the valid ten-frame game g
OfficialFrame(g, i) ==
  LET rolls == Rolls(g)
      s == FirstRollOf(g, i)
  IN IF i = 10 THEN SumSeq(g[10])
     ELSE IF rolls[s] = 10 THEN 10 + rolls[s + 1] + rolls[s + 2]
     ELSE IF rolls[s] + rolls[s + 1] = 10 THEN 10 + rolls[s + 2]
     ELSE rolls[s] + rolls[s + 1]

RECURSIVE OfficialUpTo(_, _)
OfficialUpTo(g, i) == IF i = 0 THEN 0 ELSE OfficialUpTo(g, i - 1) + OfficialFrame(g, i)

OfficialScore(g) == OfficialUpTo(g, 10)

\* C1: for every valid ten-frame game scoreGame returns the official ten-pin
\* total, the bonus rolls of the tenth frame counted exactly once
C1_OfficialTotal == Scored => score = OfficialScore(game)

\* C2: for every valid ten-frame game scoreGame returns an integer in 0..300
C2_ScoreRange == Scored => score \in 0..300

\* the perfect game has been scored
C2_Witness == Scored /\ score = 300 /\ \A i \in 1..9 : game[i] = <<10>>

\* C3: every stored solution is a triple (f8, f9, f10) whose game
\* prefix ++ [f8, f9, f10] scores exactly the target
C3_SolutionsHitTarget ==
  Calculated =>
    \A k \in 1..Len(solutions) :
      /\ Len(solutions[k]) = 3
      /\ scoreGame(PrefixOf(framesStr) \o solutions[k]) = target

\* a search over three free frames has stored two solutions or more
C3_Witness == Calculated /\ FreeCount(framesStr) = 3 /\ Len(solutions) >= 2

\* C4: after handleCalculate the stored list has at most limit solutions
C4_AtMostLimit == Calculated => Len(solutions) <= limit

\* more than limit solutions were recorded and the stored list was cut to limit
C4_Witness == Calculated /\ Len(sols) > limit /\ Len(solutions) = limit

(* ---- the legal frames of a policy ---- *)
FirstRolls(fz) == IF fz THEN 1..9 ELSE 0..9

LegalOpens(fz) == {<<a, b>> : a \in FirstRolls(fz), b \in 0..9} \cap
                  {f \in (0..9) \X (0..9) : f[1] + f[2] < 10}

LegalOrdinary(fz) ==
  {<<10>>} \cup {<<a, 10 - a>> : a \in FirstRolls(fz)} \cup LegalOpens(fz)

LegalTenth(fz) ==
  LegalOpens(fz)
  \cup {<<a, 10 - a, c>> : a \in FirstRolls(fz), c \in 0..10}
  \cup {f \in {<<10, b, c>> : b \in 0..10, c \in 0..10} : f[2] = 10 \/ f[3] <= 10 - f[2]}

\* C5: a fixed frame 8, 9 or 10 is carried by every solution at its position; a
\* free position holds a frame of the pool of the active policy
C5_FixedKeptFreeFromPool ==
  Calculated =>
    \A k \in 1..Len(solutions) : \A pos \in 1..3 :
      IF FixedAt(7 + pos) # Null
      THEN solutions[k][pos] = FixedAt(7 + pos)
      ELSE solutions[k][pos] \in
             (IF pos = 3 THEN LegalTenth(forbidFirstZero)
              ELSE LegalOrdinary(forbidFirstZero))

\* solutions were stored for a fixed frame 8 next to a free frame 9
C5_Witness ==
  Calculated /\ solutions # <<>> /\ FixedAt(8) # Null /\ FixedAt(9) = Null

\* C6: each generator returns exactly the legal set of its grammar and policy
C6_PoolsAreLegalSets ==
  Calculated =>
    /\ Range(NORMAL_POOL) = LegalOrdinary(forbidFirstZero)
    /\ Range(TENTH_POOL) = LegalTenth(forbidFirstZero)

\* the unfiltered pools were generated
C6_Witness ==
  Calculated /\ ~forbidFirstZero /\ <<0, 10>> \in Range(NORMAL_POOL)
    /\ <<0, 10, 10>> \in Range(TENTH_POOL)

\* C7: the ordinary pool has exactly 66 elements without the filter and 55 with it
C7_OrdinaryPoolSize ==
  Calculated =>
    /\ Len(NORMAL_POOL) = (IF forbidFirstZero THEN 55 ELSE 66)
    /\ Cardinality(Range(NORMAL_POOL)) = Len(NORMAL_POOL)

\* both sizes occur: this is the filtered one
C7_Witness == Calculated /\ forbidFirstZero /\ Len(NORMAL_POOL) = 55

(* ---- the Frame invariants ---- *)
RollsInRange(f) == \A i \in 1..Len(f) : f[i] \in 0..10

ValidOrdinary(f) ==
  /\ RollsInRange(f)
  /\ \/ f = <<10>>
     \/ Len(f) = 2 /\ f[1] + f[2] <= 10

ValidTenth(f) ==
  /\ RollsInRange(f)
  /\ \/ Len(f) = 2 /\ f[1] < 10 /\ f[1] + f[2] <= 10
     \/ Len(f) = 3 /\ f[1] < 10 /\ f[1] + f[2] = 10
     \/ Len(f) = 3 /\ f[1] = 10 /\ (f[2] = 10 \/ f[2] + f[3] <= 10)

\* C8: every generated frame satisfies the Frame invariant of its position
C8_CandidatesValid ==
  Calculated =>
    /\ \A f \in Range(NORMAL_POOL) : ValidOrdinary(f)
    /\ \A f \in Range(TENTH_POOL) : ValidTenth(f)

\* the tenth pool holds strike-led frames at the edge of the pin-sum rule
C8_Witness ==
  Calculated /\ <<10, 9, 1>> \in Range(TENTH_POOL) /\ <<10, 10, 10>> \in Range(TENTH_POOL)

\* C9: a filtered pool is the unfiltered pool less the frames whose first roll
\* is 0; the strike and every strike-led tenth frame stay
C9_FilterDropsFirstZero ==
  (Calculated /\ forbidFirstZero) =>
    /\ Range(NORMAL_POOL) =
         {f \in Range(generateNormalFrameCandidates_NoFilter) : f[1] # 0}
    /\ Range(TENTH_POOL) =
         {f \in Range(generateTenthFrameCandidates_NoFilter) : f[1] # 0}
    /\ <<10>> \in Range(NORMAL_POOL)
    /\ \A f \in Range(generateTenthFrameCandidates_NoFilter) :
         f[1] = 10 => f \in Range(TENTH_POOL)

\* the filtered pools keep a strike followed by a gutter ball and drop the
\* gutter-first spare
C9_Witness ==
  Calculated /\ forbidFirstZero /\ <<10, 0, 10>> \in Range(TENTH_POOL)
    /\ <<0, 10>> \notin Range(NORMAL_POOL)

\* C10: for a target outside 0..300 the search stores the empty sequence
C10_OutOfRangeEmpty ==
  (Calculated /\ target \notin 0..300) => (solutions = <<>> /\ sols = <<>>)

\* a search over the whole tenth pool for a target above the range came back empty
C10_Witness ==
  Calculated /\ target = 301 /\ FixedAt(10) = Null /\ ~forbidFirstZero
    /\ solutions = <<>>

(* ---- the parser ---- *)
\* parseFrameSymbol has returned
Parsed == parsedFrame # NotParsed

\* the documented notation with the frames it denotes
Documented ==
  { [text |-> <<"X">>, frame |-> <<10>>],
    [text |-> <<"9", "/">>, frame |-> <<9, 1>>],
    [text |-> <<"9", "-">>, frame |-> <<9, 0>>],
    [text |-> <<"8", "1">>, frame |-> <<8, 1>>],
    [text |-> <<"-", "-">>, frame |-> <<0, 0>>],
    [text |-> <<"X", "X", "X">>, frame |-> <<10, 10, 10>>],
    [text |-> <<"X", "9", "/">>, frame |-> <<10, 9, 1>>],
    [text |-> <<"9", "/", "X">>, frame |-> <<9, 1, 10>>] }

\* C19: parseFrameSymbol maps every documented text (X, 9/, 9-, 81, --, XXX,
\* X9/, 9/X) to the frame it denotes, and rejects none of them
C19_DocumentedNotation ==
  Parsed => \A d \in Documented : typed = d.text => parsedFrame = d.frame

\* a Frame of any position: a strike, a two-roll frame below a strike, or a
\* three-roll tenth frame led by a spare or by a strike
ValidFrame(f) ==
  /\ RollsInRange(f)
  /\ \/ f = <<10>>
     \/ Len(f) = 2 /\ f[1] < 10 /\ f[1] + f[2] <= 10
     \/ Len(f) = 3 /\ f[1] < 10 /\ f[1] + f[2] = 10
     \/ Len(f) = 3 /\ f[1] = 10 /\ (f[2] = 10 \/ f[2] + f[3] <= 10)

\* C20: every non-null result of parseFrameSymbol is a valid Frame; text that
\* denotes no valid Frame is rejected, never coerced
C20_RejectsInvalid == (Parsed /\ parsedFrame # Null) => ValidFrame(parsedFrame)

(* ---- the ranker; every amount is twice the amount of the claim ---- *)
\* scoreRealism has returned
Rated == realism # NotRated

\* open frame: first + 0.5 * second, and 8 less when the first roll is 0
OpenTwice(a, b) == 2 * a + b - (IF a = 0 THEN 16 ELSE 0)

\* frame 8 or 9: strike -3, spare 5 + 2 * first, open frame as above
MidTwice(f) ==
  IF f = <<10>> THEN -6
  ELSE IF f[1] + f[2] = 10 THEN 10 + 4 * f[1]
  ELSE OpenTwice(f[1], f[2])

\* frame 10: strike-led -2 / +2 / 0, spare-led 5 + 2 * first, two rolls as open
TenthTwice(t) ==
  IF Len(t) = 2 THEN OpenTwice(t[1], t[2])
  ELSE IF t[1] = 10
  THEN (IF t[2] = 10 /\ t[3] = 10 THEN -4
        ELSE IF t[2] # 10 /\ t[2] + t[3] = 10 THEN 4 ELSE 0)
  ELSE 10 + 4 * t[1]

\* C17: with strikes in frames 8 and 9 the frames-8/9 part of scoreRealism is
\* -3 -3 -4 -4 = -14; a strike in only one of them adds just -3 for that frame
C17_DoubleConsecutivePenalty ==
  Rated =>
    LET f8 == cand[1]
        f9 == cand[2]
        mids == realism - TenthTwice(cand[3])
    IN /\ (f8 = <<10>> /\ f9 = <<10>>) => mids = -28
       /\ (f8 = <<10>> /\ f9 # <<10>>) => mids = -6 + MidTwice(f9)
       /\ (f8 # <<10>> /\ f9 = <<10>>) => mids = MidTwice(f8) - 6

\* a triple with strikes in frames 8 and 9 has been rated
C17_Witness ==
  Rated /\ cand = <<<<10>>, <<10>>, <<10, 0, 0>>>> /\ realism = -28

\* C18: scoreRealism is the sum of the fixed-weight rules of frames 8, 9 and 10
\* plus the consecutive-strike penalties
C18_RealismFormula ==
  Rated =>
    realism = MidTwice(cand[1]) + MidTwice(cand[2]) + TenthTwice(cand[3])
              + (IF cand[1] = <<10>> /\ cand[2] = <<10>> THEN -16 ELSE 0)

\* a triple with a gutter-first open frame, a spare and a clean strike-led
\* tenth frame has been rated: -8 + 0 + 1.5, 5 + 2 * 7, +2
C18_Witness ==
  Rated /\ cand = <<<<0, 3>>, <<7, 3>>, <<10, 3, 7>>>> /\ realism = -13 + 38 + 4

(* ---- cap, ranking and enumeration order ---- *)
IsPrefix(a, b) == Len(a) <= Len(b) /\ SubSeq(b, 1, Len(a)) = a

\* the overflow bound was hit in a search that recorded acc under cap lim
Hit(acc, lim) == Len(acc) >= 3 * lim

\* C13: when the overflow bound is hit neither with cap = limit nor with
\* cap = limit + 1, the result for limit is a prefix of the result for limit + 1
C13_CapPrefix ==
  (/\ Calculated
   /\ ~Hit(sols, limit)
   /\ ~Hit(Recorded(framesStr, target, limit + 1, forbidFirstZero), limit + 1))
  => IsPrefix(solutions,
              Search(framesStr, target, limit + 1, preferRealism, forbidFirstZero))

\* a ranked search recorded more than limit solutions without hitting the bound
C13_Witness ==
  Calculated /\ preferRealism /\ Len(sols) > limit /\ ~Hit(sols, limit)

\* C14: with ranking enabled every stored solution rates at least as high as
\* the one after it
C14_RankedDescending ==
  (Calculated /\ preferRealism) =>
    \A k \in 1..(Len(solutions) - 1) :
      scoreRealism(solutions[k]) >= scoreRealism(solutions[k + 1])

\* the sort changed the order: the stored list differs from the recorded one
\* and its first two solutions rate differently
C14_Witness ==
  /\ Calculated /\ preferRealism /\ Len(solutions) >= 2
  /\ solutions # SubSeq(sols, 1, Len(solutions))
  /\ scoreRealism(solutions[1]) > scoreRealism(solutions[2])

(* the product of the three lists in enumeration order, numbered from 0 *)
ListAt(pos) ==
  IF FixedAt(7 + pos) # Null THEN <<FixedAt(7 + pos)>>
  ELSE IF pos = 3 THEN TENTH_POOL ELSE NORMAL_POOL

Total == Len(ListAt(1)) * Len(ListAt(2)) * Len(ListAt(3))

ComboAt(n) ==
  <<ListAt(1)[(n \div (Len(ListAt(2)) * Len(ListAt(3)))) + 1],
    ListAt(2)[((n \div Len(ListAt(3))) % Len(ListAt(2))) + 1],
    ListAt(3)[(n % Len(ListAt(3))) + 1]>>

MatchAt(n) == scoreGame(PrefixOf(framesStr) \o ComboAt(n)) = target

PosIn(list, f) == CHOOSE i \in 1..Len(list) : list[i] = f

NumberOf(sol) ==
  ((PosIn(ListAt(1), sol[1]) - 1) * Len(ListAt(2)) + (PosIn(ListAt(2), sol[2]) - 1))
    * Len(ListAt(3)) + (PosIn(ListAt(3), sol[3]) - 1)

\* C15: with ranking disabled the stored solutions are the first min(limit, N)
\* matching combinations of the product in enumeration order: they belong to
\* the product, match, come in increasing order, and no matching combination
\* is skipped before the last one (or anywhere, when fewer than limit are stored)
C15_EnumerationOrder ==
  (Calculated /\ ~preferRealism) =>
    /\ Len(solutions) <= limit
    /\ \A k \in 1..Len(solutions) : \A pos \in 1..3 :
         \E i \in 1..Len(ListAt(pos)) : ListAt(pos)[i] = solutions[k][pos]
    /\ \A k \in 1..Len(solutions) : MatchAt(NumberOf(solutions[k]))
    /\ \A k \in 1..(Len(solutions) - 1) :
         NumberOf(solutions[k]) < NumberOf(solutions[k + 1])
    /\ LET upper == IF Len(solutions) = limit
                    THEN NumberOf(solutions[Len(solutions)])
                    ELSE Total - 1
       IN \A n \in 0..upper :
            MatchAt(n) => \E k \in 1..Len(solutions) : NumberOf(solutions[k]) = n

\* an unranked search over two or three free frames stored solutions in an
\* order that the ranking would have changed
C15_Witness ==
  /\ Calculated /\ ~preferRealism /\ FreeCount(framesStr) >= 2
  /\ Len(solutions) >= 2
  /\ scoreRealism(solutions[1]) < scoreRealism(solutions[2])

\* C16: the enumeration stops once the recorded solutions reach the overflow
\* bound, 3 x limit with ranking and limit without; they never exceed it
C16_OverflowBound ==
  Calculated => Len(sols) <= (IF preferRealism THEN 3 * limit ELSE limit)

(* ---- the two records ---- *)
PerfectFinish == <<<<10>>, <<10>>, <<10, 10, 10>>>>

\* C11: after seven strikes, with frames 8-10 absent (or 8 and 9 entered as
\* strikes) and target 300, the stored solutions include [10],[10],[10,10,10]
C11_PerfectGameFound ==
  (Calculated /\ target = 300) =>
    \E k \in 1..Len(solutions) : solutions[k] = PerfectFinish

\* the search over three absent frames stored the perfect finish under cap 1
C11_Witness ==
  /\ Calculated /\ FreeCount(framesStr) = 3 /\ target = 300 /\ limit = 1
  /\ solutions = <<PerfectFinish>>

\* C12: after seven gutter frames, with frames 8-10 absent (or 8 and 9 entered
\* as gutters) and target 0, the search stores nothing under forbidFirstZero
\* and exactly [0,0],[0,0],[0,0] without it
C12_GutterGame ==
  (Calculated /\ target = 0) =>
    solutions = (IF forbidFirstZero THEN <<>>
                 ELSE <<<<<<0, 0>>, <<0, 0>>, <<0, 0>>>>>>)

\* the search over three absent frames found the one gutter finish
C12_Witness ==
  /\ Calculated /\ FreeCount(framesStr) = 3 /\ target = 0 /\ ~forbidFirstZero
  /\ Len(solutions) = 1

(* ---- completeness ---- *)
\* the matching combinations of the product of the three lists l8, l9, l10
\* after the prefix
MatchesIn(prefix, l8, l9, l10, tgt) ==
  {c \in Range(l8) \X Range(l9) \X Range(l10) : scoreGame(prefix \o c) = tgt}

\* C24: when the product holds fewer matching combinations than the overflow
\* bound 3 x limit, every one of them is recorded; when it holds at most limit
\* of them, the stored solutions are exactly the matching combinations, each
\* once.  (Recorded solutions that are 3 x limit distinct matching
\* combinations already show that the product does not hold fewer.)
C24_CompleteBelowBound ==
  Calculated =>
    LET prefix == PrefixOf(framesStr)
        l8 == ListAt(1)
        l9 == ListAt(2)
        l10 == ListAt(3)
        shown == {s \in Range(sols) :
                    /\ s[1] \in Range(l8) /\ s[2] \in Range(l9) /\ s[3] \in Range(l10)
                    /\ scoreGame(prefix \o s) = target}
    IN \/ Cardinality(shown) >= 3 * limit
       \/ LET all == MatchesIn(prefix, l8, l9, l10, target)
          IN \/ Cardinality(all) >= 3 * limit
             \/ /\ all \subseteq Range(sols)
                /\ Cardinality(all) <= limit =>
                     /\ Len(solutions) = Cardinality(all)
                     /\ all \subseteq Range(solutions)

\* a search over a free frame whose product holds more than one matching
\* combination, and no more than the cap: all of them are stored
C24_Witness ==
  /\ Calculated /\ FreeCount(framesStr) >= 1
  /\ Len(solutions) >= 2 /\ Len(sols) <= limit
  /\ Cardinality(MatchesIn(PrefixOf(framesStr), ListAt(1), ListAt(2), ListAt(3), target))
       = Len(solutions)

(* -------------------- frames 8, 9 and 10 all entered -------------------- *)
\* entries that fix frames 8, 9 and 10
FixedEntries == {Strike, <<"9", "/">>, <<"8", "1">>, Gutters}
FixedEntries10 == {<<"9", "/", "X">>, <<"9", "/", "-">>, <<"8", "1">>, Strike}

\* the score of the fully entered record fs, as the search computes it
EnteredScore(fs) ==
  LET fixed == FixedOf(parseFramesUpTo(fs, 10))
  IN scoreGame(PrefixOf(fs) \o <<fixed[8], fixed[9], fixed[10]>>)

\* the targets tried on a fully entered record: its score, the two scores on
\* either side of it, and the ends of the range
TargetsAround(fs) ==
  ({EnteredScore(fs) + d : d \in -2..2} \cup {0, 300}) \cap 0..300

InitFixed ==
  /\ \E c \in PrefixCases, e8 \in FixedEntries, e9 \in FixedEntries, e10 \in FixedEntries10 :
       /\ framesStr = c.entries \o <<e8, e9, e10>>
       /\ target \in TargetsAround(framesStr)
  /\ limit \in 1..MaxLimit
  /\ preferRealism \in BOOLEAN
  /\ forbidFirstZero \in BOOLEAN
  /\ solutions = <<>>
  /\ sols = <<>>
  /\ previewScore = NoScore
  /\ NORMAL_POOL = <<>>
  /\ TENTH_POOL = <<>>
  /\ game = <<>>
  /\ frame = 1
  /\ rollIndex = 0
  /\ score = 0
  /\ IdleParse
  /\ IdleRealism
  /\ IdleTeams
  /\ IdleRound

NextFixed == handleCalculate

SpecFixed == InitFixed /\ [][NextFixed]_vars

\* frames 8, 9 and 10 are all fixed
AllFixed == \A i \in 8..10 : FixedAt(i) # Null

FixedTriple == <<FixedAt(8), FixedAt(9), FixedAt(10)>>

\* C25: with frames 8, 9 and 10 all fixed the stored result is the fixed triple
\* alone when the game made of the prefix and the triple scores the target, and
\* empty otherwise; the check made after the loop nest adds nothing to what the
\* loop nest recorded
C25_AllFixedSingle ==
  (Calculated /\ AllFixed) =>
    /\ solutions = (IF scoreGame(PrefixOf(framesStr) \o FixedTriple) = target
                    THEN <<FixedTriple>> ELSE <<>>)
    /\ sols = Enumerate(PrefixOf(framesStr), <<FixedAt(8)>>, <<FixedAt(9)>>,
                        <<FixedAt(10)>>, target, limit)

\* a fully entered record whose score is the target, under a cap of two or
\* more: the triple is stored once
C25_Witness ==
  /\ Calculated /\ AllFixed /\ limit >= 2
  /\ solutions = <<FixedTriple>>

(* ---- the steps of the scorer ---- *)
\* what the step of the scorer adds, and how far it moves the cursor, for a
\* frame that is not the tenth: the generic contribution
GenericPoints(rolls, idx) ==
  IF RollAt(rolls, idx) = 10
  THEN 10 + RollAt(rolls, idx + 1) + RollAt(rolls, idx + 2)
  ELSE IF RollAt(rolls, idx) + RollAt(rolls, idx + 1) = 10
  THEN 10 + RollAt(rolls, idx + 2)
  ELSE RollAt(rolls, idx) + RollAt(rolls, idx + 1)

GenericAdvance(rolls, idx) == IF RollAt(rolls, idx) = 10 THEN 1 ELSE 2

\* C26: the step for frame 10 adds the generic contribution and then, when
\* the frame's first roll is a strike, its two bonus rolls with the cursor
\* moved 2 further, and when the frame is a spare, its one bonus roll with the
\* cursor moved 1 further
C26_TenthFrameExtra ==
  [][(frame = 10 /\ frame' = 11) =>
       LET rolls == Rolls(game)
           idx == rollIndex
           points == GenericPoints(rolls, idx)
           advance == GenericAdvance(rolls, idx)
       IN /\ RollAt(rolls, idx) = 10 =>
               /\ score' = score + points + RollAt(rolls, idx + 1) + RollAt(rolls, idx + 2)
               /\ rollIndex' = idx + advance + 2
          /\ (RollAt(rolls, idx) # 10 /\ RollAt(rolls, idx) + RollAt(rolls, idx + 1) = 10) =>
               /\ score' = score + points + RollAt(rolls, idx + 2)
               /\ rollIndex' = idx + advance + 1]_vars

\* C27: every step of the scorer on a valid ten-frame game starts with the
\* cursor on the first roll of its frame, and a step for one of frames 1..9
\* adds 10 and the next two rolls after a strike, 10 and the next roll after a
\* spare, the sum of the two rolls otherwise, and moves the cursor by 1 after
\* a strike and by 2 otherwise
C27_CursorPerStep ==
  [][(frame <= 10 /\ frame' = frame + 1) =>
       LET rolls == Rolls(game)
           s == FirstRollOf(game, frame)
       IN /\ rollIndex = s - 1
          /\ frame <= 9 =>
               IF rolls[s] = 10
               THEN /\ score' = score + 10 + rolls[s + 1] + rolls[s + 2]
                    /\ rollIndex' = rollIndex + 1
               ELSE IF rolls[s] + rolls[s + 1] = 10
               THEN /\ score' = score + 10 + rolls[s + 2]
                    /\ rollIndex' = rollIndex + 2
               ELSE /\ score' = score + rolls[s] + rolls[s + 1]
                    /\ rollIndex' = rollIndex + 2]_vars

\* the scorer stands before frame 10 of a game of seven gutter frames, a strike
\* and a spare: the cursor passed 14 + 1 + 2 rolls and the strike and the spare
\* have been given their bonus rolls
C27_Witness ==
  /\ frame = 10 /\ game[1] = <<0, 0>> /\ game[8] = <<10>> /\ game[9] = <<9, 1>>
  /\ rollIndex = 17
  /\ score = 20 + 10 + game[10][1]

(* ---- the games the search scores ---- *)
\* C28: every game the search scores, the prefix followed by a combination of
\* the three lists, is made of ten frames of 1 to 3 rolls each, also when an
\* entry of frames 1..7 was left empty
C28_TenFramesOfRolls ==
  Calculated =>
    /\ Len(PrefixOf(framesStr)) = 7
    /\ \A i \in 1..7 : Len(PrefixOf(framesStr)[i]) \in 1..3
    /\ \A pos \in 1..3 : \A f \in Range(ListAt(pos)) : Len(f) \in 1..3

(* -------------------- a shown frame typed back -------------------- *)
\* the frames of the four candidate pools
PoolFrames ==
  Range(generateNormalFrameCandidates_NoFilter) \cup Range(NORMAL_CAND_FILTER)
    \cup Range(generateTenthFrameCandidates_NoFilter) \cup Range(TENTH_CAND_FILTER)

InitPretty ==
  /\ framesStr = [i \in 1..10 |-> Empty]
  /\ target = 210
  /\ limit = 50
  /\ preferRealism = TRUE
  /\ forbidFirstZero = TRUE
  /\ solutions = <<>>
  /\ sols = <<>>
  /\ previewScore = NoScore
  /\ NORMAL_POOL = <<>>
  /\ TENTH_POOL = <<>>
  /\ game = <<>>
  /\ frame = 1
  /\ rollIndex = 0
  /\ score = 0
  /\ displayed \in PoolFrames
  /\ typed = <<>>
  /\ parsedFrame = NotParsed
  /\ IdleRealism
  /\ IdleTeams
  /\ IdleRound

\* one call of framesToPretty: the frame of a solution, as the list shows it
framesToPrettyCall ==
  /\ displayed # <<>>
  /\ typed = <<>>
  /\ typed' = framesToPretty(displayed)
  /\ UNCHANGED <<displayed, parsedFrame, calcVars, scoreVars, realismVars, teamVars, roundVars>>

\* the shown text entered as a frame
typeBack == typed # <<>> /\ parseFrameSymbolCall

NextPretty == framesToPrettyCall \/ typeBack

SpecPretty == InitPretty /\ [][NextPretty]_vars

\* C29: a frame of a candidate pool, formatted by framesToPretty and parsed by
\* parseFrameSymbol, comes back as itself
C29_PrettyParseRoundTrip ==
  (displayed # <<>> /\ Parsed) => parsedFrame = displayed

(* ==================== team maker (makeTeams) ==================== *)
MathMax(a, b) == IF a >= b THEN a ELSE b
MathMin(a, b) == IF a <= b THEN a ELSE b

\* Math.max(2, Math.min(12, Math.floor(maxPerTable))), maxPerTable an integer
CapOf(m) == MathMax(2, MathMin(12, m))

\* decideTeamCount with the quotient rounded to the nearest integer
decideTeamCount_round(n, m) ==
  IF n <= 0 THEN 0 ELSE MathMax(2, (2 * n + CapOf(m)) \div (2 * CapOf(m)))

\* decideTeamCount(n, maxPerTable)
decideTeamCount(n, m) ==
  IF n <= 0 THEN 0 ELSE MathMax(2, (n + CapOf(m) - 1) \div CapOf(m))

\* the value of a call of targetSizes that threw
Thrown == <<-1>>

\* while (overflow > 0 && j < teams) { ...; j++ }
RECURSIVE PushLater(_, _, _, _)
PushLater(sz, j, over, max) ==
  IF over > 0 /\ j <= Len(sz)
  THEN LET canTake == MathMin(max - sz[j], over)
       IN PushLater([sz EXCEPT ![j] = @ + canTake], j + 1, over - canTake, max)
  ELSE [sizes |-> sz, overflow |-> over]

\* while (overflow > 0 && j >= 0) { ...; j-- }
RECURSIVE PushEarlier(_, _, _, _)
PushEarlier(sz, j, over, max) ==
  IF over > 0 /\ j >= 1
  THEN LET canTake == MathMin(max - sz[j], over)
       IN PushEarlier([sz EXCEPT ![j] = @ + canTake], j - 1, over - canTake, max)
  ELSE [sizes |-> sz, overflow |-> over]

\* the second loop of targetSizes from team i on: "ensure none exceed max"
RECURSIVE EnsureMax(_, _, _)
EnsureMax(sz, i, max) ==
  IF i > Len(sz) THEN sz
  ELSE IF sz[i] > max
  THEN LET later == PushLater([sz EXCEPT ![i] = max], i + 1, sz[i] - max, max)
           earlier == PushEarlier(later.sizes, i - 1, later.overflow, max)
       IN IF earlier.overflow > 0 THEN Thrown
          ELSE EnsureMax(earlier.sizes, i + 1, max)
  ELSE EnsureMax(sz, i + 1, max)

\* targetSizes with the whole remainder given to the first team
targetSizes_remFirst(n, k, max) ==
  EnsureMax([i \in 1..k |-> (n \div k) + (IF i = 1 THEN n % k ELSE 0)], 1, max)

\* targetSizes(n, teams, maxPerTable): the even split, the first n % teams
\* teams one larger, then the second loop
targetSizes(n, k, max) ==
  EnsureMax([i \in 1..k |-> (n \div k) + (IF i <= n % k THEN 1 ELSE 0)], 1, max)

\* snakeOrder(k): the team indices 0..k-1 forward, then backward
snakeOrder(k) == [i \in 1..(2 * k) |-> IF i <= k THEN i - 1 ELSE 2 * k - i]

\* [...players].sort((a, b) => b.avg - a.avg): a stable sort, by insertion
RECURSIVE InsertSeeded(_, _)
InsertSeeded(sorted, x) ==
  IF sorted = <<>> THEN <<x>>
  ELSE IF sorted[Len(sorted)].avg >= x.avg THEN Append(sorted, x)
  ELSE Append(InsertSeeded(SubSeq(sorted, 1, Len(sorted) - 1), x), sorted[Len(sorted)])

RECURSIVE SortByAvg(_)
SortByAvg(list) ==
  IF list = <<>> THEN <<>>
  ELSE InsertSeeded(SortByAvg(SubSeq(list, 1, Len(list) - 1)), list[Len(list)])

\* teams[teamIdx].players.length < teams[teamIdx].sizeLimit
HasRoom(t) == Len(t.players) < t.sizeLimit

\* teams[i].players.push(pl), i counted from 1
Pushed(tms, i, pl) == [tms EXCEPT ![i].players = Append(@, pl)]

\* PlaceOne with the test for room left out of the snake loop
PlaceOne_noRoomTest(tms, pos, pl) ==
  LET pattern == snakeOrder(Len(tms))
  IN [teams |-> Pushed(tms, pattern[pos + 1] + 1, pl),
      p |-> (pos + 1) % Len(pattern),
      via |-> "snake"]

\* one iteration of for (const pl of seeded): the snake loop from position
\* pos, then teams.find(...) ?? teams[0]
PlaceOne(tms, pos, pl) ==
  LET pattern == snakeOrder(Len(tms))
      len == Len(pattern)
      open == {tries \in 0..(len - 1) : HasRoom(tms[pattern[((pos + tries) % len) + 1] + 1])}
      roomy == {i \in 1..Len(tms) : HasRoom(tms[i])}
  IN IF open # {}
     THEN LET tries == CHOOSE t \in open : \A u \in open : t <= u
          IN [teams |-> Pushed(tms, pattern[((pos + tries) % len) + 1] + 1, pl),
              p |-> (pos + tries + 1) % len,
              via |-> "snake"]
     ELSE IF roomy # {}
     THEN [teams |-> Pushed(tms, CHOOSE i \in roomy : \A j \in roomy : i <= j, pl),
           p |-> pos, via |-> "find"]
     ELSE IF Len(tms) > 0
     THEN [teams |-> Pushed(tms, 1, pl), p |-> pos, via |-> "first"]
     ELSE [teams |-> tms, p |-> pos, via |-> "threw"]

(* ---- inputs ---- *)
\* largest number of players that is explored
MaxPlayers == 15

\* the averages of the players of a list, by position: all alike, rising,
\* falling, and repeating in threes
AvgOf(kind, i) ==
  IF kind = 1 THEN 150
  ELSE IF kind = 2 THEN 100 + 5 * i
  ELSE IF kind = 3 THEN 250 - 5 * i
  ELSE 100 + 50 * (i % 3)

\* player lists; the name of a player is his number in the list
PlayerLists ==
  {[i \in 1..n |-> [name |-> i, avg |-> AvgOf(kind, i)]] : n \in 0..MaxPlayers, kind \in 1..4}

\* the values of maxPerTable the page holds (its input clamps to 2..12), and
\* the integers makeTeams may be given as an argument
PageCaps == 2..12
ArgumentCaps == -1..14

\* the solver page at rest
IdleCount ==
  /\ framesStr = [i \in 1..10 |-> Empty]
  /\ target = 210
  /\ limit = 50
  /\ preferRealism = TRUE
  /\ forbidFirstZero = TRUE
  /\ solutions = <<>>
  /\ sols = <<>>
  /\ previewScore = NoScore
  /\ NORMAL_POOL = <<>>
  /\ TENTH_POOL = <<>>
  /\ game = <<>>
  /\ frame = 1
  /\ rollIndex = 0
  /\ score = 0

NewCall ==
  /\ teamCount = 0 /\ sizes = <<>> /\ teams = <<>> /\ seeded = <<>> /\ seedIdx = 0
  /\ patternPos = 0 /\ placedVia = "none" /\ status = "idle"

InitTeams ==
  /\ IdleCount /\ IdleParse /\ IdleRealism /\ IdleRound
  /\ players \in PlayerLists
  /\ maxPerTable \in PageCaps
  /\ NewCall

InitMakeTeams ==
  /\ IdleCount /\ IdleParse /\ IdleRealism /\ IdleRound
  /\ players \in PlayerLists
  /\ maxPerTable \in ArgumentCaps
  /\ NewCall

\* makeTeams up to the placement loop
makeTeamsEnter ==
  /\ status = "idle"
  /\ IF Len(players) = 0
     THEN /\ status' = "returned"
          /\ UNCHANGED <<teamCount, sizes, teams, seeded>>
     ELSE LET cap == CapOf(maxPerTable)
              count == decideTeamCount(Len(players), cap)
              sz == targetSizes(Len(players), count, cap)
          IN /\ teamCount' = count
             /\ IF sz = Thrown
                THEN /\ status' = "threw"
                     /\ UNCHANGED <<sizes, teams, seeded>>
                ELSE /\ sizes' = sz
                     /\ teams' = [i \in 1..count |->
                                    [idx |-> i - 1, players |-> <<>>, sizeLimit |-> sz[i]]]
                     /\ seeded' = SortByAvg(players)
                     /\ status' = "placing"
  /\ UNCHANGED <<players, maxPerTable, seedIdx, patternPos, placedVia>>
  /\ UNCHANGED <<calcVars, scoreVars, parseVars, realismVars, roundVars>>

\* one iteration of for (const pl of seeded)
placePlayer ==
  /\ status = "placing"
  /\ seedIdx < Len(seeded)
  /\ LET placed == PlaceOne(teams, patternPos, seeded[seedIdx + 1])
     IN /\ teams' = placed.teams
        /\ patternPos' = placed.p
        /\ placedVia' = placed.via
        /\ status' = IF placed.via = "threw" THEN "threw" ELSE "placing"
  /\ seedIdx' = seedIdx + 1
  /\ UNCHANGED <<players, maxPerTable, teamCount, sizes, seeded>>
  /\ UNCHANGED <<calcVars, scoreVars, parseVars, realismVars, roundVars>>

\* return { teams, sizes, teamCount }
makeTeamsReturn ==
  /\ status = "placing"
  /\ seedIdx = Len(seeded)
  /\ status' = "returned"
  /\ UNCHANGED <<players, maxPerTable, teamCount, sizes, teams, seeded, seedIdx,
                 patternPos, placedVia>>
  /\ UNCHANGED <<calcVars, scoreVars, parseVars, realismVars, roundVars>>

NextTeams == makeTeamsEnter \/ placePlayer \/ makeTeamsReturn

SpecTeams == InitTeams /\ [][NextTeams]_vars

SpecMakeTeams == InitMakeTeams /\ [][NextTeams]_vars

(* ---- properties of the team maker ---- *)
\* makeTeams has returned teams for at least one player
TeamsMade == status = "returned" /\ Len(players) >= 1

\* C21: the teams makeTeams returns for one or more players hold no more
\* players than maxPerTable clamped to 2..12, and no two of them differ in
\* size by more than 1
C21_BalancedWithinCap ==
  TeamsMade =>
    /\ \A i \in 1..Len(teams) : Len(teams[i].players) <= CapOf(maxPerTable)
    /\ \A i, j \in 1..Len(teams) : Len(teams[i].players) - Len(teams[j].players) <= 1

\* three or more teams of two different sizes, the larger ones full, made
\* from a maxPerTable below 2
C21_Witness ==
  /\ TeamsMade /\ maxPerTable < 2 /\ Len(teams) >= 3
  /\ \E i, j \in 1..Len(teams) :
       /\ Len(teams[i].players) = 2
       /\ Len(teams[j].players) = 1

RECURSIVE Members(_)
Members(tms) ==
  IF tms = <<>> THEN <<>> ELSE tms[1].players \o Members(SubSeq(tms, 2, Len(tms)))

\* C30: the teams makeTeams returns for a non-empty list hold every player
\* exactly once, their sizes add up to the number of players, and every team
\* has as many players as its sizeLimit, the size targetSizes gave it
C30_TeamsPartitionPlayers ==
  TeamsMade =>
    /\ \A k \in 1..Len(players) :
         Cardinality({m \in 1..Len(Members(teams)) : Members(teams)[m] = players[k]}) = 1
    /\ Len(Members(teams)) = Len(players)
    /\ \A i \in 1..Len(teams) :
         /\ Len(teams[i].players) = teams[i].sizeLimit
         /\ teams[i].sizeLimit = sizes[i]
         /\ teams[i].sizeLimit =
              targetSizes(Len(players), teamCount, CapOf(maxPerTable))[i]

\* thirteen players at tables of six: three teams of 5, 4 and 4
C30_Witness ==
  /\ TeamsMade /\ Len(players) = 13 /\ maxPerTable = 6
  /\ [i \in 1..Len(teams) |-> Len(teams[i].players)] = <<5, 4, 4>>

(* ==================== random mode (planOneRound) ==================== *)
\* shuffle(arr), given the permutation of the positions the random draws make
Shuffled(arr, perm) == [i \in 1..Len(arr) |-> arr[perm[i]]]

\* the permutations shuffle can make of a list of n elements: all of them
ShufflesOf(arr) == Permutations(1..Len(arr))

\* distributeGroupToTeams with the index of the name left out of the team index
distributeGroupToTeams_sameTeam(shuffled, k, startOffset) ==
  [t \in 1..k |-> IF (startOffset % k) + 1 = t THEN shuffled ELSE <<>>]

\* distributeGroupToTeams(players, teamCount, startOffset) once its shuffle
\* has returned shuffled: the name at index idx (from 0) goes to team
\* (idx + startOffset) % teamCount
distributeGroupToTeams(shuffled, k, startOffset) ==
  [t \in 1..k |->
     LET mine == {i \in 1..Len(shuffled) : ((i - 1 + startOffset) % k) + 1 = t}
     IN [j \in 1..Cardinality(mine) |->
           shuffled[(CHOOSE i \in mine : \A h \in mine : i <= h) + (j - 1) * k]]]

\* mergeTeams(into, add)
mergeTeams(into, add) == [i \in 1..Len(into) |-> into[i] \o add[i]]

(* ---- inputs ---- *)
\* group maps, as the list of their entries (group name, members): the name
\* is the sequence of its characters, of which only the number counts
GroupMaps ==
  { << [name |-> <<"1", "g", "r">>, members |-> <<"a", "b", "c">>],
       [name |-> <<"2", "g", "r">>, members |-> <<"d", "e">>],
       [name |-> <<"1", "0", "g", "r">>, members |-> <<>>] >>,
    << [name |-> <<"1", "g", "r">>, members |-> <<"a", "b", "c", "d", "e">>],
       [name |-> <<"1", "0", "g", "r">>, members |-> <<"f">>] >> }

\* the numbers of teams the page holds (its input clamps to 2..8)
TeamCounts == 2..8

\* the round indices runRandomize passes (rounds is clamped to 1..6)
RoundIndices == 0..5

InitRound ==
  /\ IdleCount /\ IdleParse /\ IdleRealism /\ IdleTeams
  /\ groups \in GroupMaps
  /\ roundTeams \in TeamCounts
  /\ roundIdx \in RoundIndices
  /\ groupEntries = <<>>
  /\ result = <<>>
  /\ mixed = 0
  /\ planStatus = "idle"

\* planOneRound up to its loop over the shuffled group entries
planOneRoundEnter ==
  /\ planStatus = "idle"
  /\ groups # <<>>
  /\ result' = [i \in 1..roundTeams |-> <<>>]
  /\ \E perm \in ShufflesOf(groups) : groupEntries' = Shuffled(groups, perm)
  /\ planStatus' = "merging"
  /\ UNCHANGED <<groups, roundTeams, roundIdx, mixed>>
  /\ UNCHANGED <<calcVars, scoreVars, parseVars, realismVars, teamVars>>

\* one iteration of for (const [groupName, members] of groupEntries)
distributeGroup ==
  /\ planStatus = "merging"
  /\ groupEntries # <<>>
  /\ LET groupName == Head(groupEntries).name
         members == Head(groupEntries).members
         offset == (roundIdx + Len(groupName)) % roundTeams
     IN IF Len(members) = 0
        THEN UNCHANGED result
        ELSE \E perm \in ShufflesOf(members) :
               result' = mergeTeams(result, distributeGroupToTeams(Shuffled(members, perm), roundTeams, offset))
  /\ groupEntries' = Tail(groupEntries)
  /\ UNCHANGED <<groups, roundTeams, roundIdx, mixed, planStatus>>
  /\ UNCHANGED <<calcVars, scoreVars, parseVars, realismVars, teamVars>>

\* one iteration of for (...) result[i] = shuffle(result[i])
mixTeam ==
  /\ planStatus = "merging"
  /\ groupEntries = <<>>
  /\ mixed < Len(result)
  /\ \E perm \in ShufflesOf(result[mixed + 1]) :
       result' = [result EXCEPT ![mixed + 1] = Shuffled(@, perm)]
  /\ mixed' = mixed + 1
  /\ UNCHANGED <<groups, roundTeams, roundIdx, groupEntries, planStatus>>
  /\ UNCHANGED <<calcVars, scoreVars, parseVars, realismVars, teamVars>>

\* return result
planOneRoundReturn ==
  /\ planStatus = "merging"
  /\ groupEntries = <<>>
  /\ mixed = Len(result)
  /\ planStatus' = "returned"
  /\ UNCHANGED <<groups, roundTeams, roundIdx, groupEntries, result, mixed>>
  /\ UNCHANGED <<calcVars, scoreVars, parseVars, realismVars, teamVars>>

NextRound == planOneRoundEnter \/ distributeGroup \/ mixTeam \/ planOneRoundReturn

SpecRound == InitRound /\ [][NextRound]_vars

(* ---- properties of the random mode ---- *)
\* how many times name occurs in team
TimesIn(team, name) == Cardinality({i \in 1..Len(team) : team[i] = name})

\* how many members of the group are in team
MembersIn(team, members) ==
  Cardinality({i \in 1..Len(team) : team[i] \in Range(members)})

\* C23: in the teams planOneRound returns, whatever the shuffles made, every
\* member of every group is in exactly one team, once, and no two teams differ
\* by more than 1 in the number of members they hold of any one group
C23_GroupsRoundRobin ==
  planStatus = "returned" =>
    \A g \in 1..Len(groups) :
      /\ \A m \in 1..Len(groups[g].members) :
           /\ Cardinality({t \in 1..Len(result) :
                             TimesIn(result[t], groups[g].members[m]) > 0}) = 1
           /\ \A t \in 1..Len(result) : TimesIn(result[t], groups[g].members[m]) <= 1
      /\ \A t, u \in 1..Len(result) :
           MembersIn(result[t], groups[g].members)
             - MembersIn(result[u], groups[g].members) <= 1

\* a round over two teams returned with a group of five split 3 and 2 and the
\* single member of a second group in the smaller team
C23_Witness ==
  /\ planStatus = "returned" /\ roundTeams = 2 /\ Len(groups) = 2
  /\ MembersIn(result[1], groups[1].members) = 2
  /\ MembersIn(result[2], groups[1].members) = 3
  /\ result[1][1] = "f"

====
